---- MODULE Spec2Model ----
(***************************************************************************)
(* Vector-tile pipeline of main.py: tile_to_bbox, the per-feature loop of  *)
(* create_pbf_tile (reproject, intersects, intersection, is_empty,         *)
(* geometry_to_tile_coords, append) and its tail (layers, None / encode).  *)
(*                                                                         *)
(* Numbers.  Planar (EPSG:3857) coordinates are fixed-point integers: the  *)
(* world is the square [-Half, Half]^2 with World = 2^PrecBits grid units  *)
(* per side, so a value that the code's floating point cannot tell apart   *)
(* from its neighbour is here a value below one grid unit.  Geographic     *)
(* (EPSG:4326) coordinates are integer steps: longitude in -2..2 (steps of *)
(* 90 degrees), latitude in -3..3 (the latitudes whose Mercator y is       *)
(* 0, 1/4, 1/2 and 1 of Half).                                             *)
(*                                                                         *)
(* Geometries.  A geometry is a GeoJSON-like record [type, coordinates]    *)
(* with coordinates a sequence of <<x, y>> pairs: one pair for a Point,    *)
(* two for a LineString, a closed ring of five for a Polygon, none for an  *)
(* empty geometry.  Every geometry of the model is axis-aligned, so that   *)
(* intersects / intersection against the tile box are exact on its bounds. *)
(***************************************************************************)
EXTENDS Integers, Sequences, FiniteSets, TLC

\* ------------------------------------------------------------------ bounds
PrecBits == 3
MaxFeatures == 3
MaxCol == 1

\* ------------------------------------------------------- program constants
TILE_EXTENT == 4096
SHAPEFILE_NAME == "test_shp"

Pow2(k) == 2 ^ k
World == Pow2(PrecBits)
Half == World \div 2
MaxZoom == PrecBits + 1

Min2(a, b) == IF a <= b THEN a ELSE b
Max2(a, b) == IF a >= b THEN a ELSE b
Sign(a) == IF a < 0 THEN -1 ELSE IF a > 0 THEN 1 ELSE 0
Abs(a) == IF a < 0 THEN -a ELSE a

\* ----------------------------------------------------------- the transformer
\* Transformer.from_crs(WGS84, WEB_MERCATOR, always_xy=True)
NewTransformer == [src |-> "EPSG:4326", dst |-> "EPSG:3857", always_xy |-> TRUE]

\* Mercator y of a latitude step: odd, strictly increasing, not linear.
MercatorY(lat) ==
    Sign(lat) * (CASE Abs(lat) = 0 -> 0
                   [] Abs(lat) = 1 -> Half \div 4
                   [] Abs(lat) = 2 -> Half \div 2
                   [] OTHER        -> Half)

\* transformer.transform(x, y): one coordinate pair, geographic to planar. With
\* always_xy the pair is (lon, lat); without it EPSG:4326 is read (lat, lon).
TransformXY(t, c) ==
    LET lon == IF t.always_xy THEN c[1] ELSE c[2]
        lat == IF t.always_xy THEN c[2] ELSE c[1]
    IN  <<lon * (Half \div 2), MercatorY(lat)>>

\* shapely.ops.transform(func, geom): func on every coordinate, structure kept.
Reproject(t, geom) ==
    [type |-> geom.type,
     coordinates |-> [k \in 1..Len(geom.coordinates) |-> TransformXY(t, geom.coordinates[k])]]

UseTransformer_Rebind(t) == [t EXCEPT !.always_xy = FALSE]

\* Calling transformer.transform leaves the process-wide transformer as it was.
UseTransformer(t) == t

\* ------------------------------------------------------------- tile_to_bbox
\* The west edge of column x at zoom z: x / n * 360 - 180 degrees, projected.
\* The quotient is kept to the grid, as the float keeps it to its precision.
TileEdge(z, k) == (k * World) \div Pow2(z)

tile_to_bbox(z, x, y) ==
    [minx |-> TileEdge(z, x) - Half,
     miny |-> Half - TileEdge(z, y + 1),
     maxx |-> TileEdge(z, x + 1) - Half,
     maxy |-> Half - TileEdge(z, y)]

\* ------------------------------------------------------------ shapely parts
\* shape(feat['geometry']) raises when the record holds no geometry.
NoGeometry == [type |-> "None", coordinates |-> <<>>]
ShapeFails(gj) == gj.type = "None"

is_empty(geom) == geom.coordinates = <<>>

RECURSIVE MinOf(_, _, _)
MinOf(cs, d, k) ==
    IF k = Len(cs) THEN cs[k][d] ELSE Min2(cs[k][d], MinOf(cs, d, k + 1))
RECURSIVE MaxOf(_, _, _)
MaxOf(cs, d, k) ==
    IF k = Len(cs) THEN cs[k][d] ELSE Max2(cs[k][d], MaxOf(cs, d, k + 1))

\* geom.bounds of a non-empty geometry
Bounds(geom) ==
    [minx |-> MinOf(geom.coordinates, 1, 1), miny |-> MinOf(geom.coordinates, 2, 1),
     maxx |-> MaxOf(geom.coordinates, 1, 1), maxy |-> MaxOf(geom.coordinates, 2, 1)]

\* geom.intersects(bbox): the closed point sets share a point.
intersects(geom, bbox) ==
    /\ ~is_empty(geom)
    /\ LET g == Bounds(geom)
       IN  /\ g.minx <= bbox.maxx /\ bbox.minx <= g.maxx
           /\ g.miny <= bbox.maxy /\ bbox.miny <= g.maxy

\* The geometry of the closed rectangle r: its dimension gives its type.
RectGeometry(r) ==
    IF r.minx > r.maxx \/ r.miny > r.maxy
    THEN [type |-> "GeometryCollection", coordinates |-> <<>>]
    ELSE IF r.minx = r.maxx /\ r.miny = r.maxy
    THEN [type |-> "Point", coordinates |-> <<<<r.minx, r.miny>>>>]
    ELSE IF r.minx = r.maxx \/ r.miny = r.maxy
    THEN [type |-> "LineString",
          coordinates |-> <<<<r.minx, r.miny>>, <<r.maxx, r.maxy>>>>]
    ELSE [type |-> "Polygon",
          coordinates |-> <<<<r.minx, r.miny>>, <<r.minx, r.maxy>>, <<r.maxx, r.maxy>>,
                            <<r.maxx, r.miny>>, <<r.minx, r.miny>>>>]

\* geom.intersection(bbox): the shared point set, whose type may be lower than
\* the type of geom (a polygon meeting the box in an edge or in one corner).
intersection(geom, bbox) ==
    IF is_empty(geom)
    THEN [type |-> "GeometryCollection", coordinates |-> <<>>]
    ELSE LET g == Bounds(geom)
         IN  RectGeometry([minx |-> Max2(g.minx, bbox.minx), miny |-> Max2(g.miny, bbox.miny),
                           maxx |-> Min2(g.maxx, bbox.maxx), maxy |-> Min2(g.maxy, bbox.maxy)])

\* -------------------------------------------------- geometry_to_tile_coords
\* maxx - minx = 0 or maxy - miny = 0: the division of lines 75-76 raises.
ZeroExtent(bbox) == bbox.maxx - bbox.minx = 0 \/ bbox.maxy - bbox.miny = 0

affine_NoOffset(c, bbox, scale_x, scale_y) ==
    <<c[1] * scale_x, (bbox.maxy - c[2]) * scale_y>>

affine_NoFlip(c, bbox, scale_x, scale_y) ==
    <<(c[1] - bbox.minx) * scale_x, (c[2] - bbox.miny) * scale_y>>

affine_transform_func(c, bbox, scale_x, scale_y) ==
    <<(c[1] - bbox.minx) * scale_x, (bbox.maxy - c[2]) * scale_y>>

geometry_to_tile_coords(geom, bbox) ==
    LET scale_x == TILE_EXTENT \div (bbox.maxx - bbox.minx)
        scale_y == TILE_EXTENT \div (bbox.maxy - bbox.miny)
    IN  [type |-> geom.type,
         coordinates |-> [k \in 1..Len(geom.coordinates) |->
                            affine_transform_func(geom.coordinates[k], bbox, scale_x, scale_y)]]

\* ---------------------------------------------------------- feature source
Ring(x1, y1, x2, y2) ==
    <<<<x1, y1>>, <<x1, y2>>, <<x2, y2>>, <<x2, y1>>, <<x1, y1>>>>

\* Geographic geometries (lon steps, lat steps).
GeomCentre == [type |-> "Polygon", coordinates |-> Ring(-1, -1, 1, 1)]
GeomNorthWest == [type |-> "Polygon", coordinates |-> Ring(-2, 2, -1, 3)]
GeomOrigin == [type |-> "Point", coordinates |-> <<<<0, 0>>>>]
GeomCorner == [type |-> "Point", coordinates |-> <<<<-2, 3>>>>]
GeomLine == [type |-> "LineString", coordinates |-> <<<<-2, 2>>, <<0, 2>>>>]

SourceFeatures ==
    { [geometry |-> GeomCentre, properties |-> [name |-> "a", pop |-> 1]],
      [geometry |-> GeomNorthWest, properties |-> [name |-> "b", pop |-> 2]],
      [geometry |-> GeomNorthWest, properties |-> [name |-> "c", pop |-> 1]],
      [geometry |-> GeomOrigin, properties |-> [name |-> "a", pop |-> 2]],
      [geometry |-> GeomCorner, properties |-> [name |-> "b", pop |-> 1]],
      [geometry |-> GeomLine, properties |-> [name |-> "c", pop |-> 2]],
      [geometry |-> NoGeometry, properties |-> [name |-> "a", pop |-> 1]] }

SeqsUpTo(S, n) == UNION { [1..k -> S] : k \in 0..n }

TileAddresses == { <<z, x, y>> : z \in 0..MaxZoom, x \in 0..MaxCol, y \in 0..MaxCol }

Procs == {1, 2}

VARIABLES
    src,                  \* the features the shapefile yields, in file order
    transformer_to_3857,  \* the process-wide transformer
    pc,                   \* per invocation: where create_pbf_tile stands
    addr,                 \* per invocation: <<z, x, y>>
    tile_bbox,            \* per invocation: tile_to_bbox(z, x, y)
    idx,                  \* per invocation: position of `for feat in src`
    features,             \* per invocation: the list `features`
    origin,               \* per invocation: for each entry of features, the
                          \* position in src of the feat it was built from
    layers,               \* per invocation: the list `layers`
    result                \* per invocation: what the call returned or raised

vars == <<src, transformer_to_3857, pc, addr, tile_bbox, idx, features, origin,
          layers, result>>

NoBox == [minx |-> 0, miny |-> 0, maxx |-> 0, maxy |-> 0]
Pending == [kind |-> "pending"]

InitLocals ==
    /\ transformer_to_3857 = NewTransformer
    /\ tile_bbox = [p \in Procs |-> NoBox]
    /\ idx = [p \in Procs |-> 0]
    /\ features = [p \in Procs |-> <<>>]
    /\ origin = [p \in Procs |-> <<>>]
    /\ layers = [p \in Procs |-> <<>>]
    /\ result = [p \in Procs |-> Pending]

\* One request: invocation 1 runs, invocation 2 is never made.
Init ==
    /\ src \in SeqsUpTo(SourceFeatures, MaxFeatures)
    /\ \E a \in TileAddresses : addr = [p \in Procs |-> IF p = 1 THEN a ELSE <<0, 0, 0>>]
    /\ pc = [p \in Procs |-> IF p = 1 THEN "bbox" ELSE "idle"]
    /\ InitLocals

\* line 102, 104, 109
ComputeBBox(p) ==
    /\ pc[p] = "bbox"
    /\ tile_bbox' = [tile_bbox EXCEPT ![p] = tile_to_bbox(addr[p][1], addr[p][2], addr[p][3])]
    /\ transformer_to_3857' = UseTransformer(transformer_to_3857)
    /\ layers' = [layers EXCEPT ![p] = <<>>]
    /\ features' = [features EXCEPT ![p] = <<>>]
    /\ origin' = [origin EXCEPT ![p] = <<>>]
    /\ idx' = [idx EXCEPT ![p] = 1]
    /\ pc' = [pc EXCEPT ![p] = "loop"]
    /\ UNCHANGED <<src, addr, result>>

InLoop(p) == pc[p] = "loop" /\ idx[p] <= Len(src)
feat(p) == src[idx[p]]
geom_3857(p) == Reproject(transformer_to_3857, feat(p).geometry)
clipped_geom(p) == intersection(geom_3857(p), tile_bbox[p])

Raise(p, exc) ==
    /\ result' = [result EXCEPT ![p] = [kind |-> "raise", exc |-> exc]]
    /\ pc' = [pc EXCEPT ![p] = "raised"]

\* line 112: shape() raises, nothing catches it, the call ends
ShapeRaises(p) ==
    /\ InLoop(p)
    /\ ShapeFails(feat(p).geometry)
    /\ Raise(p, "AttributeError")
    /\ UNCHANGED <<src, transformer_to_3857, addr, tile_bbox, idx, features, origin, layers>>

Discards_EmptyOnly(geom, bbox) == is_empty(geom)

Discards_LowerDimension(geom, bbox) ==
    \/ ~intersects(geom, bbox)
    \/ is_empty(intersection(geom, bbox))
    \/ intersection(geom, bbox).type # geom.type

\* lines 118-119 and 125-126: continue
Discards(geom, bbox) == ~intersects(geom, bbox) \/ is_empty(intersection(geom, bbox))

Discard(p) ==
    /\ InLoop(p)
    /\ ~ShapeFails(feat(p).geometry)
    /\ Discards(geom_3857(p), tile_bbox[p])
    /\ transformer_to_3857' = UseTransformer(transformer_to_3857)
    /\ idx' = [idx EXCEPT ![p] = @ + 1]
    /\ UNCHANGED <<src, pc, addr, tile_bbox, features, origin, layers, result>>

\* line 129 -> lines 75-76: ZeroDivisionError, nothing catches it
QuantizeRaises(p) ==
    /\ InLoop(p)
    /\ ~ShapeFails(feat(p).geometry)
    /\ ~Discards(geom_3857(p), tile_bbox[p])
    /\ ZeroExtent(tile_bbox[p])
    /\ transformer_to_3857' = UseTransformer(transformer_to_3857)
    /\ Raise(p, "ZeroDivisionError")
    /\ UNCHANGED <<src, addr, tile_bbox, idx, features, origin, layers>>

TileFeature_NameOnly(f, geom) ==
    [geometry |-> geom, properties |-> [name |-> f.properties.name]]

ListPrepend(list, x) == <<x>> \o list

\* lines 135-138
TileFeature(f, geom) == [geometry |-> geom, properties |-> f.properties]
ListAppend(list, x) == Append(list, x)

AppendFeature(p) ==
    /\ InLoop(p)
    /\ ~ShapeFails(feat(p).geometry)
    /\ ~Discards(geom_3857(p), tile_bbox[p])
    /\ ~ZeroExtent(tile_bbox[p])
    /\ transformer_to_3857' = UseTransformer(transformer_to_3857)
    /\ features' = [features EXCEPT ![p] =
          ListAppend(@, TileFeature(feat(p), geometry_to_tile_coords(clipped_geom(p), tile_bbox[p])))]
    /\ origin' = [origin EXCEPT ![p] = Append(@, idx[p])]
    /\ idx' = [idx EXCEPT ![p] = @ + 1]
    /\ UNCHANGED <<src, pc, addr, tile_bbox, layers, result>>

\* lines 140-145
LayersAfterLoop(ls, fs) ==
    IF fs # <<>> THEN Append(ls, [name |-> SHAPEFILE_NAME, features |-> fs]) ELSE ls

EndLoop(p) ==
    /\ pc[p] = "loop"
    /\ idx[p] > Len(src)
    /\ layers' = [layers EXCEPT ![p] = LayersAfterLoop(@, features[p])]
    /\ pc' = [pc EXCEPT ![p] = "ret"]
    /\ UNCHANGED <<src, transformer_to_3857, addr, tile_bbox, idx, features, origin, result>>

\* lines 147-148
NoLayers(ls) == ls = <<>>

ReturnNone(p) ==
    /\ pc[p] = "ret"
    /\ NoLayers(layers[p])
    /\ result' = [result EXCEPT ![p] = [kind |-> "None"]]
    /\ pc' = [pc EXCEPT ![p] = "done"]
    /\ UNCHANGED <<src, transformer_to_3857, addr, tile_bbox, idx, features, origin, layers>>

\* lines 151-153: the encoder is handed `layers`; its bytes stand for them
Encode(p) ==
    /\ pc[p] = "ret"
    /\ ~NoLayers(layers[p])
    /\ result' = [result EXCEPT ![p] = [kind |-> "pbf", layers |-> layers[p]]]
    /\ pc' = [pc EXCEPT ![p] = "done"]
    /\ UNCHANGED <<src, transformer_to_3857, addr, tile_bbox, idx, features, origin, layers>>

Next ==
    \E p \in Procs :
        \/ ComputeBBox(p)
        \/ ShapeRaises(p)
        \/ Discard(p)
        \/ QuantizeRaises(p)
        \/ AppendFeature(p)
        \/ EndLoop(p)
        \/ ReturnNone(p)
        \/ Encode(p)

Spec == Init /\ [][Next]_vars

\* Two requests for different tiles handled at once, over the same shapefile.
ConcFeatures ==
    { f \in SourceFeatures :
        \/ f.geometry = NoGeometry
        \/ f.properties.name = "b" /\ f.geometry = GeomNorthWest
        \/ f.geometry = GeomCentre }

ConcAddresses == { <<0, 0, 0>>, <<1, 0, 0>>, <<1, 1, 1>>, <<MaxZoom, 0, 0>> }

InitConc ==
    /\ src \in SeqsUpTo(ConcFeatures, MaxFeatures)
    /\ \E a, b \in ConcAddresses : a # b /\ addr = [p \in Procs |-> IF p = 1 THEN a ELSE b]
    /\ pc = [p \in Procs |-> "bbox"]
    /\ InitLocals

SpecConc == InitConc /\ [][Next]_vars

\* ------------------------------------------------------------- properties
Ended(p) == pc[p] \in {"done", "raised"}
Range(s) == { s[k] : k \in 1..Len(s) }

\* Iterations of the loop that ran to their end (a continue or an append).
Completed(p) == IF pc[p] \in {"idle", "bbox"} THEN {} ELSE 1..(idx[p] - 1)

\* The planar geometry of a source feature, as the pipeline is documented to
\* see it: reprojected with the transformer the process was started with.
Planar(f) == Reproject(NewTransformer, f.geometry)

\* Point-set reading of a geometry against the box, on the grid itself: the
\* grid points the geometry covers, and those of them that lie in the box.
PointsOf(geom) ==
    IF is_empty(geom) THEN {}
    ELSE { <<x, y>> : x \in MinOf(geom.coordinates, 1, 1)..MaxOf(geom.coordinates, 1, 1),
                      y \in MinOf(geom.coordinates, 2, 1)..MaxOf(geom.coordinates, 2, 1) }
InBox(bbox, pt) ==
    /\ bbox.minx <= pt[1] /\ pt[1] <= bbox.maxx
    /\ bbox.miny <= pt[2] /\ pt[2] <= bbox.maxy
SharedPoints(geom, bbox) == { pt \in PointsOf(geom) : InBox(bbox, pt) }

\* What one source feature is documented to become in the tile.
ExpectedFeature(f, bbox) ==
    [geometry |-> geometry_to_tile_coords(intersection(Planar(f), bbox), bbox),
     properties |-> f.properties]

Survives(f, bbox) ==
    /\ ~ShapeFails(f.geometry)
    /\ SharedPoints(Planar(f), bbox) # {}

\* The features of the layer a finished call handed to the encoder.
Emitted(p) ==
    IF result[p].kind = "pbf" THEN result[p].layers[1].features ELSE <<>>

\* C1: the emitted features are a subsequence of the input. Every entry of
\* `features` is what one source feature becomes, the positions in src of the
\* features behind successive entries strictly increase (so no source feature
\* is emitted twice and none out of order), and the layer handed to the
\* encoder holds exactly that list.
C1_OrderPreserved ==
    \A p \in Procs :
        /\ Len(origin[p]) = Len(features[p])
        /\ \A j \in 1..Len(features[p]) :
              /\ origin[p][j] \in 1..Len(src)
              /\ features[p][j] = ExpectedFeature(src[origin[p][j]], tile_bbox[p])
        /\ \A j, k \in 1..Len(origin[p]) : j < k => origin[p][j] < origin[p][k]
        /\ result[p].kind = "pbf" => Emitted(p) = features[p]

\* Two different features emitted around a discarded one, and the tile returned.
C1_Witness ==
    /\ result[1].kind = "pbf"
    /\ origin[1] = <<1, 3>>
    /\ features[1][1] # features[1][2]

\* C2: every entry of `features` was built from a source feature whose
\* reprojected geometry shares a point with the tile box.
C2_DiscardCorrect ==
    \A p \in Procs : \A j \in 1..Len(features[p]) :
        /\ j <= Len(origin[p])
        /\ SharedPoints(Planar(src[origin[p][j]]), tile_bbox[p]) # {}

\* A feature outside the tile went through the loop and one inside it was kept.
C2_Witness ==
    /\ pc[1] = "loop"
    /\ origin[1] = <<2>>
    /\ idx[1] = 3
    /\ ~ShapeFails(src[1].geometry)
    /\ SharedPoints(Planar(src[1]), tile_bbox[1]) = {}

\* C3: for a box with minx < maxx and miny < maxy, every clipped geometry lies
\* in the box and every coordinate of every emitted feature lies in
\* 0..TILE_EXTENT, in `features` and in the layer handed to the encoder.
InExtent(fs) ==
    \A j \in 1..Len(fs) : \A k \in 1..Len(fs[j].geometry.coordinates) :
        /\ fs[j].geometry.coordinates[k][1] \in 0..TILE_EXTENT
        /\ fs[j].geometry.coordinates[k][2] \in 0..TILE_EXTENT

C3_InExtent ==
    \A p \in Procs :
        (tile_bbox[p].minx < tile_bbox[p].maxx /\ tile_bbox[p].miny < tile_bbox[p].maxy) =>
            /\ InExtent(features[p])
            /\ InExtent(Emitted(p))
            /\ \A j \in 1..Len(origin[p]) :
                  LET c == intersection(Planar(src[origin[p][j]]), tile_bbox[p]).coordinates
                  IN  \A k \in 1..Len(c) : InBox(tile_bbox[p], c[k])

\* A returned tile, not the whole world, with a feature on its east edge
\* (tx = TILE_EXTENT) and on its west edge (tx = 0).
C3_Witness ==
    /\ result[1].kind = "pbf"
    /\ addr[1][1] > 0
    /\ \E j \in 1..Len(Emitted(1)) :
          LET c == Emitted(1)[j].geometry.coordinates
          IN  /\ \E k \in 1..Len(c) : c[k][1] = TILE_EXTENT
              /\ \E k \in 1..Len(c) : c[k][1] = 0

\* C4: the quantizer turns the y axis over. A clipped coordinate with
\* y = miny of the box has tile y = TILE_EXTENT, one with y = maxy has tile
\* y = 0, and of two clipped coordinates the one with the larger planar y has
\* the strictly smaller tile y.
ClippedCoords(p, j) == intersection(Planar(src[origin[p][j]]), tile_bbox[p]).coordinates

C4_YFlip ==
    \A p \in Procs : \A j \in 1..Len(features[p]) :
        LET c == ClippedCoords(p, j)
            q == features[p][j].geometry.coordinates
        IN  /\ Len(q) = Len(c)
            /\ \A k \in 1..Len(c) :
                  /\ c[k][2] = tile_bbox[p].miny => q[k][2] = TILE_EXTENT
                  /\ c[k][2] = tile_bbox[p].maxy => q[k][2] = 0
            /\ \A j2 \in 1..Len(features[p]) :
                  LET c2 == ClippedCoords(p, j2)
                      q2 == features[p][j2].geometry.coordinates
                  IN  \A k \in 1..Len(c) : \A k2 \in 1..Len(c2) :
                          c[k][2] < c2[k2][2] => q[k][2] > q2[k2][2]

\* Emitted coordinates on the south edge of the box, on its north edge and
\* strictly between the two.
C4_Witness ==
    /\ pc[1] = "done"
    /\ \E j \in 1..Len(features[1]) : \E k \in 1..Len(ClippedCoords(1, j)) :
          ClippedCoords(1, j)[k][2] = tile_bbox[1].miny
    /\ \E j \in 1..Len(features[1]) : \E k \in 1..Len(ClippedCoords(1, j)) :
          ClippedCoords(1, j)[k][2] = tile_bbox[1].maxy
    /\ \E j \in 1..Len(features[1]) : \E k \in 1..Len(ClippedCoords(1, j)) :
          /\ ClippedCoords(1, j)[k][2] > tile_bbox[1].miny
          /\ ClippedCoords(1, j)[k][2] < tile_bbox[1].maxy

\* C5: a feature whose geometry cannot be read is skipped and the tile goes
\* on. For a box of non-zero extent a call that has ended did not raise, and
\* every source feature that is readable and meets the box was emitted.
C5_SkipInvalid ==
    \A p \in Procs :
        (Ended(p) /\ ~ZeroExtent(tile_bbox[p])) =>
            /\ result[p].kind # "raise"
            /\ \A k \in 1..Len(src) :
                  Survives(src[k], tile_bbox[p]) => k \in Range(origin[p])

\* C6: for a box of non-zero extent a call that has ended returned None
\* exactly when no source feature survives intersection and clipping, returned
\* a tile with one layer of at least one feature whenever some feature
\* survives, and no layer ever holds an empty feature list.
C6_EmptyTile ==
    \A p \in Procs :
        /\ \A l \in 1..Len(layers[p]) : layers[p][l].features # <<>>
        /\ (Ended(p) /\ ~ZeroExtent(tile_bbox[p])) =>
              LET some == \E k \in 1..Len(src) : Survives(src[k], tile_bbox[p])
              IN  /\ (result[p].kind = "None") <=> ~some
                  /\ some => /\ result[p].kind = "pbf"
                             /\ Len(result[p].layers) = 1
                             /\ result[p].layers[1].features # <<>>

\* C7: for a box of zero width or zero height a call that has ended has
\* failed: it returned neither a tile nor None.
C7_DegenerateBoxFails ==
    \A p \in Procs :
        (Ended(p) /\ ZeroExtent(tile_bbox[p])) => result[p].kind \notin {"None", "pbf"}

\* C8: every emitted feature carries the attribute mapping of its source
\* feature, in `features` and in the layer handed to the encoder, and no step
\* changes the source features.
PropertiesKept(p, fs) ==
    \A j \in 1..Len(fs) :
        /\ j <= Len(origin[p])
        /\ fs[j].properties = src[origin[p][j]].properties

C8_AttributesUnchanged ==
    /\ [](\A p \in Procs : PropertiesKept(p, features[p]) /\ PropertiesKept(p, Emitted(p)))
    /\ [][src' = src]_vars

\* A returned tile with two features of different attribute mappings.
C8_Witness ==
    /\ result[1].kind = "pbf"
    /\ Len(Emitted(1)) = 2
    /\ Emitted(1)[1].properties # Emitted(1)[2].properties

\* C9: two calls for different tiles, interleaved in any way. Each ends with
\* the result the call has when run alone from the transformer the process
\* was started with; the transformer keeps that value; and a step of one call
\* changes nothing the other call reads.
RECURSIVE LoopAlone(_, _, _, _)
LoopAlone(s, bbox, k, fs) ==
    IF k > Len(s)
    THEN IF fs = <<>> THEN [kind |-> "None"]
         ELSE [kind |-> "pbf", layers |-> <<[name |-> SHAPEFILE_NAME, features |-> fs]>>]
    ELSE IF ShapeFails(s[k].geometry) THEN [kind |-> "raise", exc |-> "AttributeError"]
    ELSE IF SharedPoints(Planar(s[k]), bbox) = {} THEN LoopAlone(s, bbox, k + 1, fs)
    ELSE IF ZeroExtent(bbox) THEN [kind |-> "raise", exc |-> "ZeroDivisionError"]
    ELSE LoopAlone(s, bbox, k + 1, Append(fs, ExpectedFeature(s[k], bbox)))

RunAlone(s, a) == LoopAlone(s, tile_to_bbox(a[1], a[2], a[3]), 1, <<>>)

Locals(p) ==
    <<pc[p], addr[p], tile_bbox[p], idx[p], features[p], origin[p], layers[p], result[p]>>

C9_Independent ==
    /\ [](/\ transformer_to_3857 = NewTransformer
          /\ \A p \in Procs : Ended(p) => result[p] = RunAlone(src, addr[p]))
    /\ [][/\ transformer_to_3857' = transformer_to_3857
          /\ src' = src
          /\ \A p, q \in Procs : (p # q /\ Locals(p)' # Locals(p)) => Locals(q)' = Locals(q)]_vars

\* One call has returned its tile while the other, for a different tile, is
\* still in its loop with a different feature in its list.
C9_Witness ==
    /\ addr[1] # addr[2]
    /\ result[1].kind = "pbf"
    /\ pc[2] = "loop" /\ idx[2] = 2
    /\ features[2] # <<>>
    /\ features[2][1] # features[1][1]

\* C10 as stated: a polygon whose reprojected geometry meets the box in a
\* single point does not appear in the output.
TouchesAtPoint(f, bbox) ==
    /\ f.geometry.type = "Polygon"
    /\ Cardinality(SharedPoints(Planar(f), bbox)) = 1

C10_TouchingPolygonDiscarded ==
    \A p \in Procs : \A k \in Completed(p) :
        TouchesAtPoint(src[k], tile_bbox[p]) => k \notin Range(origin[p])

\* C10 amended: a feature is discarded exactly when its reprojected geometry
\* shares no point with the box, the only case of an empty clipped geometry.
\* A polygon meeting the box in a single point is kept: once its iteration
\* has run to its end it is in `features`, as a Point of one coordinate.
C10_TouchingPolygonKept ==
    \A p \in Procs : \A k \in Completed(p) :
        /\ k \in Range(origin[p]) <=> SharedPoints(Planar(src[k]), tile_bbox[p]) # {}
        /\ TouchesAtPoint(src[k], tile_bbox[p]) =>
              \E j \in 1..Len(features[p]) :
                  /\ origin[p][j] = k
                  /\ features[p][j].geometry.type = "Point"
                  /\ Len(features[p][j].geometry.coordinates) = 1

\* A polygon touching the box in one corner went into a returned tile.
C10_Witness ==
    /\ result[1].kind = "pbf"
    /\ \E k \in 1..Len(src) :
          /\ TouchesAtPoint(src[k], tile_bbox[1])
          /\ k \in Range(origin[1])
====
